---- MODULE Spec2Model ----
(***************************************************************************)
(* A model of drg-mod-tools: the mod_lint binary (src/bin/mod_lint.rs) and *)
(* the modio_audit binary (src/bin/modio_audit.rs).                        *)
(*                                                                         *)
(* Paths are sequences of components, file names are sequences of          *)
(* dot-separated parts, rendered text is a sequence of lines.  Strings     *)
(* that the program orders (BTreeMap/BTreeSet keys, sorted rows) are       *)
(* ordered by StrOrder, the byte order of the strings of the model.        *)
(***************************************************************************)
EXTENDS Integers, Sequences, FiniteSets, TLC

VARIABLES
    pc,              \* position of the run
    err,             \* the error main returned ("" while there is none)
    out,             \* the report sections printed so far, in order
    \* ---- pak_path_to_game_path on its own
    pak_path,        \* the components handed to pak_path_to_game_path
    game_path,       \* what it returned
    \* ---- mod_lint main
    mount_point,     \* components of pak.mount_point()
    pak_files,       \* pak.files()
    extensions,      \* stem -> set of extensions
    todo,            \* stems the loop of line 61 has not reached yet
    assets_read,     \* stem -> the asset bytes pak.get returned for it
    split_pairs,
    asset_types,     \* full path -> Result<class name>
    hierarchy,       \* parent -> set of children
    \* ---- build_trees and Node::print
    roots,           \* what find_roots returned
    trees,           \* what build_trees returned
    first_output,    \* the lines of the previous execution
    \* ---- modio_audit main
    mods_left,       \* entries of the mods directory not read yet
    paks,            \* mod id -> what was found in its directory
    asset_owners,    \* path -> Vec of mod ids
    sorted           \* the sorted Vec of (path, owners)

vars == <<pc, err, out, pak_path, game_path, mount_point, pak_files, extensions,
          todo, assets_read, split_pairs, asset_types, hierarchy, roots, trees,
          first_output, mods_left, paks, asset_owners, sorted>>

pathVars  == <<pak_path, game_path>>
lintVars  == <<mount_point, pak_files, extensions, todo, assets_read, split_pairs>>
treeVars  == <<roots, trees, first_output>>
auditVars == <<mods_left, paks, asset_owners, sorted>>

----------------------------------------------------------------------------
(* Option and Result values *)

None == <<>>
Some(x) == <<x>>
IsSome(o) == Len(o) = 1
Unwrap(o) == o[1]

Ok(x) == [ok |-> TRUE, v |-> x]
Err(e) == [ok |-> FALSE, v |-> e]

EmptyMap == [x \in {} |-> {}]

----------------------------------------------------------------------------
(* Sequences *)

RECURSIVE SeqsUpTo(_, _)
SeqsUpTo(S, n) ==
    IF n = 0 THEN {<<>>}
    ELSE LET P == SeqsUpTo(S, n - 1)
         IN P \cup {Append(s, x) : s \in {p \in P : Len(p) = n - 1}, x \in S}

RECURSIVE SetsUpTo(_, _)
SetsUpTo(S, n) ==
    IF n = 0 THEN {{}}
    ELSE LET P == SetsUpTo(S, n - 1)
         IN P \cup {s \cup {x} : s \in P, x \in S}

RECURSIVE Concat(_)
Concat(ss) == IF ss = <<>> THEN <<>> ELSE Head(ss) \o Concat(Tail(ss))

RECURSIVE JoinStr(_, _)
JoinStr(parts, sep) ==
    IF parts = <<>> THEN ""
    ELSE IF Len(parts) = 1 THEN parts[1]
    ELSE parts[1] \o sep \o JoinStr(Tail(parts), sep)

Perms(S) == {p \in [1..Cardinality(S) -> S] : \A x \in S : \E i \in DOMAIN p : p[i] = x}

----------------------------------------------------------------------------
(* Path normalizer: pak_path_to_game_path, mod_lint.rs 211-246 *)

\* A component the iterator yields as PakPathComponent::Normal.
IsNormal(c) == c \notin {"..", ".", "/"}

\* Utf8UnixPath::join of an absolute base and the rest of the components.
JoinPath(base, rest) ==
    IF rest = <<>> THEN base
    ELSE IF base = "/" THEN base \o JoinStr(rest, "/")
    ELSE base \o "/" \o JoinStr(rest, "/")

Remaining(c, i) == SubSeq(c, i, Len(c))

\* The mutant: the plugin name is the component that follows Plugins.
RECURSIVE PluginScanFirst(_, _, _)
PluginScanFirst(c, i, last) ==
    IF i > Len(c) THEN None
    ELSE IF c[i] = "Content"
         THEN IF IsSome(last)
              THEN Some(JoinPath(JoinPath("/", <<c[3]>>), Remaining(c, i + 1)))
              ELSE None
    ELSE IF IsNormal(c[i]) THEN PluginScanFirst(c, i + 1, Some(c[i]))
    ELSE None

\* The loop of lines 219-232: components.next() is c[i].
RECURSIVE PluginScan(_, _, _)
PluginScan(c, i, last) ==
    IF i > Len(c) THEN None
    ELSE IF c[i] = "Content"
         THEN IF IsSome(last)
              THEN Some(JoinPath(JoinPath("/", <<Unwrap(last)>>), Remaining(c, i + 1)))
              ELSE None
    ELSE IF IsNormal(c[i]) THEN PluginScan(c, i + 1, Some(c[i]))
    ELSE None

pak_path_to_game_path(c) ==
    IF Len(c) >= 1 /\ c[1] = "Engine"
    THEN IF Len(c) >= 2 /\ c[2] = "Content" THEN Some(JoinPath("/Engine", Remaining(c, 3)))
         ELSE IF Len(c) >= 2 /\ c[2] = "Plugins" THEN PluginScan(c, 3, None)
         ELSE None
    ELSE IF Len(c) >= 1 /\ IsNormal(c[1])
    THEN IF Len(c) >= 2 /\ c[2] = "Content" THEN Some(JoinPath("/Game", Remaining(c, 3)))
         ELSE None
    ELSE None

----------------------------------------------------------------------------
(* The specification of pak_path_to_game_path alone *)

MaxPathLen == 5
ComponentNames == {"Engine", "Content", "Plugins", "MyPlugin", "Foo"}

IdlePath  == pak_path = <<>> /\ game_path = None
IdleLint  ==
    /\ mount_point = <<>> /\ pak_files = {} /\ extensions = EmptyMap /\ todo = <<>>
    /\ assets_read = EmptyMap /\ split_pairs = {}
IdleTree  == roots = <<>> /\ trees = <<>> /\ first_output = <<>>
IdleAudit == mods_left = {} /\ paks = EmptyMap /\ asset_owners = EmptyMap /\ sorted = <<>>

InitPath ==
    /\ pc = "normalize"
    /\ pak_path \in SeqsUpTo(ComponentNames, MaxPathLen)
    /\ game_path = None
    /\ err = "" /\ out = <<>>
    /\ asset_types = EmptyMap /\ hierarchy = EmptyMap
    /\ IdleLint /\ IdleTree /\ IdleAudit

Normalize ==
    /\ pc = "normalize"
    /\ game_path' = pak_path_to_game_path(pak_path)
    /\ pc' = IF IsSome(game_path') THEN "normalized" ELSE "failed"
    /\ err' = IF IsSome(game_path') THEN "" ELSE "failed to normalize"
    /\ UNCHANGED <<out, pak_path, lintVars, asset_types, hierarchy, treeVars, auditVars>>

NextPath == Normalize

SpecPath == InitPath /\ [][NextPath]_vars

----------------------------------------------------------------------------
(* C4: pak_path_to_game_path against the reference of the four shapes *)

Slash(comps) == "/" \o JoinStr(comps, "/")

ContentAt(c) == {i \in 3..Len(c) : c[i] = "Content"}
FirstContent(c) == CHOOSE i \in ContentAt(c) : \A j \in ContentAt(c) : i <= j

Reference(c) ==
    IF Len(c) >= 2 /\ c[1] = "Engine" /\ c[2] = "Content"
    THEN Some(Slash(<<"Engine">> \o Remaining(c, 3)))
    ELSE IF Len(c) >= 2 /\ c[1] = "Engine" /\ c[2] = "Plugins"
    THEN IF ContentAt(c) = {} \/ FirstContent(c) = 3 THEN None
         ELSE Some(Slash(<<c[FirstContent(c) - 1]>> \o Remaining(c, FirstContent(c) + 1)))
    ELSE IF Len(c) >= 2 /\ c[1] # "Engine" /\ c[2] = "Content"
    THEN Some(Slash(<<"Game">> \o Remaining(c, 3)))
    ELSE None

\* C4: the result of pak_path_to_game_path is the reference result for the
\* component sequence it was given, and the four examples of the
\* specification come out as stated.
C4_NormalizerMatchesReference ==
    /\ pc \in {"normalized", "failed"} => game_path = Reference(pak_path)
    /\ pak_path_to_game_path(<<"ModName", "Content", "Foo", "Bar">>) = Some("/Game/Foo/Bar")
    /\ pak_path_to_game_path(<<"Engine", "Content", "Foo">>) = Some("/Engine/Foo")
    /\ pak_path_to_game_path(<<"Engine", "Plugins", "MyPlugin", "Content", "Foo">>)
           = Some("/MyPlugin/Foo")
    /\ pak_path_to_game_path(<<"Engine", "Plugins", "MyPlugin", "NotContent", "Foo">>) = None

C4_Witness ==
    /\ pc = "normalized"
    /\ pak_path = <<"Engine", "Plugins", "Foo", "MyPlugin", "Content">>
    /\ game_path = Some("/MyPlugin")

----------------------------------------------------------------------------
(* String order: String's Ord (byte order), over the strings of the model *)

StrOrder ==
    <<"", "/Game/A.A", "/Game/A.A_C", "/Game/A.B_C", "/Game/A.v2.A",
      "/Game/A.v2.A_C", "/Game/A.v2.B_C", "/Game/B.A", "/Game/B.A_C", "/Game/B.B_C",
      "/Script/Engine.Actor", "A", "AssetRegistry", "B", "BlueprintGeneratedClass",
      "C", "Content/A", "Content/A.v2", "Content/B", "D", "DataTable",
      "FSD/Content/A", "Foo/Content/A", "SoundWave", "Texture2D",
      "missing class import">>

Rank(s) == CHOOSE i \in 1..Len(StrOrder) : StrOrder[i] = s
StrLess(a, b) == Rank(a) < Rank(b)

\* Iteration of a BTreeSet<String> (or of the keys of a BTreeMap): ascending.
RECURSIVE BTreeIter(_)
BTreeIter(S) ==
    IF S = {} THEN <<>>
    ELSE LET m == CHOOSE x \in S : \A y \in S : y = x \/ StrLess(x, y)
         IN <<m>> \o BTreeIter(S \ {m})

----------------------------------------------------------------------------
(* Hierarchy forest: find_roots, build_node_recursively, build_trees,      *)
(* mod_lint.rs 510-540, and Node::print, 449-508                           *)

Keys(m) == DOMAIN m
Values(m) == UNION {m[k] : k \in DOMAIN m}

\* parents.difference(&children): a HashSet, whose iteration order is not
\* fixed; find_roots returns its elements in any order.
RootSet(edge_list) == Keys(edge_list) \ Values(edge_list)
find_roots(edge_list) == Perms(RootSet(edge_list))

\* The recursion of build_node_recursively from id never ends.
RECURSIVE Cyclic(_, _, _)
Cyclic(children_map, id, seen) ==
    \/ id \in seen
    \/ /\ id \in DOMAIN children_map
       /\ \E c \in children_map[id] : Cyclic(children_map, c, seen \cup {id})

RECURSIVE build_node_recursively(_, _)
build_node_recursively(id, children_map) ==
    LET ids == IF id \in DOMAIN children_map THEN BTreeIter(children_map[id]) ELSE <<>>
    IN [id |-> id,
        children |-> [k \in 1..Len(ids) |-> build_node_recursively(ids[k], children_map)]]

\* Edge, and its Display: None "    ", Straight U+2502 "   ",
\* Corner U+2514 U+2500 U+2500 " ", T U+251C U+2500 U+2500 " ".
\* The box-drawing characters are written |, + and - here.
Display(edge) ==
    CASE edge = "None" -> "    "
      [] edge = "Straight" -> "|   "
      [] edge = "Corner" -> "+-- "
      [] edge = "T" -> "|-- "

Last(s) == s[Len(s)]
Pop(s) == SubSeq(s, 1, Len(s) - 1)
SetLast(s, e) == [s EXCEPT ![Len(s)] = e]

\* The mutant: a corner above the children is left as it is.
EnterChildrenKeepCorner(stack) ==
    IF stack = <<>> THEN stack
    ELSE IF Last(stack) = "T" THEN SetLast(stack, "Straight")
    ELSE stack

\* Lines 462-468: before the children are printed.
EnterChildren(stack) ==
    IF stack = <<>> THEN stack
    ELSE IF Last(stack) = "Corner" THEN SetLast(stack, "None")
    ELSE IF Last(stack) = "T" THEN SetLast(stack, "Straight")
    ELSE stack

\* Lines 484-488: after the children are printed.
LeaveChildren(stack) ==
    IF stack = <<>> THEN stack
    ELSE IF Last(stack) = "Straight" THEN SetLast(stack, "T")
    ELSE stack

\* print_node prints its lines and changes the stack it was lent: the result
\* is both.
RECURSIVE print_node(_, _, _)
RECURSIVE print_each(_, _, _)
print_each(nodes, prefix, stack) ==
    IF nodes = <<>> THEN [lines |-> <<>>, stack |-> stack]
    ELSE LET r == print_node(Head(nodes), prefix, stack)
             rest == print_each(Tail(nodes), prefix, r.stack)
         IN [lines |-> r.lines \o rest.lines, stack |-> rest.stack]

print_node(node, prefix, stack) ==
    LET line == [prefix |-> prefix, edges |-> stack, id |-> node.id]
        n == Len(node.children)
    IN IF n = 0 THEN [lines |-> <<line>>, stack |-> stack]
       ELSE LET s1 == EnterChildren(stack)
                first == print_each(SubSeq(node.children, 1, n - 1), prefix, Append(s1, "T"))
                s2 == Pop(first.stack)
                last == print_node(node.children[n], prefix, Append(s2, "Corner"))
                s3 == Pop(last.stack)
            IN [lines |-> <<line>> \o first.lines \o last.lines,
                stack |-> LeaveChildren(s3)]

print(node, prefix) == print_node(node, prefix, <<>>).lines

\* What a printed line looks like.
LineText(line) ==
    line.prefix \o JoinStr([i \in 1..Len(line.edges) |-> Display(line.edges[i])], "") \o line.id

----------------------------------------------------------------------------
(* The specification of build_trees and print: the hierarchy is any map of *)
(* at most MaxEdges edges, and it is built and printed twice               *)

MaxEdges == 4
NodeIds == {"A", "B", "C", "D"}

MapOf(edges) ==
    [p \in {e[1] : e \in edges} |-> {e[2] : e \in {x \in edges : x[1] = p}}]

InitTree ==
    /\ pc = "build"
    /\ hierarchy \in {MapOf(es) : es \in SetsUpTo(NodeIds \X NodeIds, MaxEdges)}
    /\ roots = <<>> /\ trees = <<>> /\ first_output = None
    /\ err = "" /\ out = <<>>
    /\ asset_types = EmptyMap
    /\ IdlePath /\ IdleLint /\ IdleAudit

\* main, lines 104-105: the header, then build_trees (534-540).  A cycle
\* below a root has the recursion of build_node_recursively overflow the
\* stack, which ends the process.
BuildTrees ==
    /\ pc = "build"
    /\ out' = Append(out, [section |-> "class hierarchy:", lines |-> <<>>])
    /\ \E order \in find_roots(hierarchy) :
          /\ roots' = order
          /\ IF \E r \in RootSet(hierarchy) : Cyclic(hierarchy, r, {})
             THEN /\ trees' = <<>>
                  /\ pc' = "overflow"
             ELSE /\ trees' = [i \in 1..Len(order) |->
                                  build_node_recursively(order[i], hierarchy)]
                  /\ pc' = "print"
    /\ UNCHANGED <<err, pathVars, lintVars, asset_types, hierarchy, first_output,
                   auditVars>>

HierarchyLines(ts) == Concat([i \in 1..Len(ts) |-> print(ts[i], "\t")])

\* main, lines 106-108.
PrintTrees ==
    /\ pc = "print"
    /\ out' = [out EXCEPT ![Len(out)].lines = HierarchyLines(trees)]
    /\ pc' = "printed"
    /\ UNCHANGED <<err, pathVars, lintVars, asset_types, hierarchy, treeVars, auditVars>>

\* The same records are built and rendered a second time.
Rerun ==
    /\ pc = "printed"
    /\ first_output = None
    /\ first_output' = Some(out)
    /\ out' = <<>>
    /\ roots' = <<>> /\ trees' = <<>>
    /\ pc' = "build"
    /\ UNCHANGED <<err, pathVars, lintVars, asset_types, hierarchy, auditVars>>

NextTree == BuildTrees \/ PrintTrees \/ Rerun

SpecTree == InitTree /\ [][NextTree]_vars

----------------------------------------------------------------------------
(* C6: the rendering is the directory-tree rendering *)

Ascending(s) == \A i, j \in 1..Len(s) : i < j => StrLess(s[i], s[j])
ChildrenOf(h, id) == IF id \in DOMAIN h THEN h[id] ELSE {}
InOrder(h, id) == CHOOSE s \in Perms(ChildrenOf(h, id)) : Ascending(s)

\* The lines of the subtree of id, whose ancestors at depth 1..d (id itself
\* at depth d) are last children or not as lastChild tells.
RECURSIVE TreeStyle(_, _, _)
TreeStyle(h, id, lastChild) ==
    LET d == Len(lastChild)
        glyphs == [i \in 1..d |->
                      IF i < d THEN (IF lastChild[i] THEN "    " ELSE "|   ")
                      ELSE (IF lastChild[d] THEN "+-- " ELSE "|-- ")]
        kids == InOrder(h, id)
    IN <<"\t" \o JoinStr(glyphs, "") \o id>>
       \o Concat([k \in 1..Len(kids) |->
                     TreeStyle(h, kids[k], Append(lastChild, k = Len(kids)))])

Texts(lines) == [i \in 1..Len(lines) |-> LineText(lines[i])]

Chain == [p \in {"A", "B"} |-> IF p = "A" THEN {"B"} ELSE {"C"}]

\* C6: what is printed for the trees is, root by root, the pre-order
\* directory-tree rendering of the hierarchy with children in lexicographic
\* order: d glyphs at depth d, continuation or blank for the ancestors,
\* branch or corner for the node; the chain A -> B -> C prints A, corner B,
\* blank corner C.
C6_TreeStyleRendering ==
    /\ pc = "printed" =>
          Texts(out[Len(out)].lines)
              = Concat([i \in 1..Len(roots) |-> TreeStyle(hierarchy, roots[i], <<>>)])
    /\ Texts(print(build_node_recursively("A", Chain), ""))
          = <<"A", "+-- B", "    +-- C">>

\* A node two levels down below a non-last child, and one below a last child.
C6_Witness ==
    /\ pc = "printed"
    /\ hierarchy = MapOf({<<"A", "B">>, <<"A", "C">>, <<"B", "D">>, <<"C", "D">>})
    /\ Texts(out[Len(out)].lines)
          = <<"\tA", "\t|-- B", "\t|   +-- D", "\t+-- C", "\t    +-- D">>

----------------------------------------------------------------------------
(* C7: building and rendering twice *)

\* C7: the second build and render of the same hierarchy prints what the
\* first one printed.
C7_RenderDeterministic ==
    (pc = "printed" /\ IsSome(first_output)) => out = Unwrap(first_output)

----------------------------------------------------------------------------
(* Verification classifier: main, mod_lint.rs 116-166, AutoVerify and      *)
(* AssetType, 179-209                                                      *)

auto_verified ==
    {"SoundWave", "SoundCue", "SoundClass", "SoundMix", "MaterialInstanceConstant",
     "Material", "SkeletalMesh", "StaticMesh", "Texture2D", "AnimSequence", "Skeleton",
     "StringTable"}

\* The match of lines 137-146.
AutoVerifyOf(t) ==
    IF t.ok THEN (IF t.v \in auto_verified THEN "Pass" ELSE "Fail") ELSE "Unknown"

\* The match of lines 147-150.
AssetTypeOf(t) == [kind |-> IF t.ok THEN "Known" ELSE "Unknown", s |-> t.v]

\* The mutant: the tiers in the order of their names.
AutoVerifyIndexByName(a) ==
    CASE a = "Fail" -> 0 [] a = "Pass" -> 1 [] a = "Unknown" -> 2

\* derive(Ord) on AutoVerify: the order of the variants.
AutoVerifyIndex(a) ==
    CASE a = "Pass" -> 0 [] a = "Fail" -> 1 [] a = "Unknown" -> 2

\* derive(Ord) on AssetType: the variant, then its string.
AssetTypeCmp(x, y) ==
    LET ix == IF x.kind = "Known" THEN 0 ELSE 1
        iy == IF y.kind = "Known" THEN 0 ELSE 1
    IN IF ix # iy THEN (IF ix < iy THEN -1 ELSE 1)
       ELSE IF x.s = y.s THEN 0
       ELSE IF StrLess(x.s, y.s) THEN -1 ELSE 1

\* Ord of the tuple (AutoVerify, AssetType, String).
RowLess(x, y) ==
    LET ax == AutoVerifyIndex(x[1])
        ay == AutoVerifyIndex(y[1])
        m == AssetTypeCmp(x[2], y[2])
    IN IF ax # ay THEN ax < ay
       ELSE IF m # 0 THEN m < 0
       ELSE StrLess(x[3], y[3])

\* Vec::sort: stable, ascending.
RECURSIVE SortRows(_)
SortRows(rows) ==
    IF rows = <<>> THEN <<>>
    ELSE LET rest == SortRows(Tail(rows))
             x == Head(rows)
             k == Cardinality({i \in 1..Len(rest) : RowLess(rest[i], x)})
         IN SubSeq(rest, 1, k) \o <<x>> \o SubSeq(rest, k + 1, Len(rest))

AutoVerifyOutput(a) ==
    CASE a = "Pass" -> "yes" [] a = "Fail" -> "no" [] a = "Unknown" -> "?"

\* Lines 134-155.
auto_verified_results(types) ==
    LET fs == BTreeIter(DOMAIN types)
    IN SortRows([i \in 1..Len(fs) |->
                    <<AutoVerifyOf(types[fs[i]]), AssetTypeOf(types[fs[i]]), fs[i]>>])

\* Lines 163-165.
TableLines(rows) ==
    [i \in 1..Len(rows) |->
        [a |-> AutoVerifyOutput(rows[i][1]), m |-> rows[i][2].s, f |-> rows[i][3]]]

\* main, lines 116-166.
PrintTable ==
    /\ pc = "table"
    /\ out' = IF asset_types = EmptyMap THEN out
              ELSE Append(out, [section |-> "auto-verify class asset path",
                                lines |-> TableLines(auto_verified_results(asset_types))])
    /\ pc' = "done"
    /\ UNCHANGED <<err, pathVars, lintVars, asset_types, hierarchy, treeVars, auditVars>>

----------------------------------------------------------------------------
(* The specification of the classifier alone: any asset-type map over the  *)
(* first MaxAssets paths                                                   *)

MaxAssets == 3
VerifyPaths == <<"/Game/A.A", "/Game/A.A_C", "/Game/A.v2.A_C", "/Game/A.v2.B_C">>
VerifyClasses == {"SoundWave", "Texture2D", "BlueprintGeneratedClass", "DataTable"}
VerifyResults == {Ok(c) : c \in VerifyClasses} \cup {Err("missing class import")}

InitVerify ==
    /\ pc = "table"
    /\ \E fs \in SUBSET {VerifyPaths[i] : i \in 1..MaxAssets} :
          asset_types \in [fs -> VerifyResults]
    /\ err = "" /\ out = <<>>
    /\ hierarchy = EmptyMap
    /\ IdlePath /\ IdleLint /\ IdleTree /\ IdleAudit

NextVerify == PrintTable

SpecVerify == InitVerify /\ [][NextVerify]_vars

----------------------------------------------------------------------------
(* C8: the verification table *)

Sections(name) == {i \in 1..Len(out) : out[i].section = name}
Table == out[CHOOSE i \in Sections("auto-verify class asset path") : TRUE].lines

TierOf(a) == CASE a = "yes" -> 0 [] a = "no" -> 1 [] a = "?" -> 2

\* (tier, text, path) of row x is not after that of row y.
RowOrdered(x, y) ==
    \/ TierOf(x.a) < TierOf(y.a)
    \/ /\ TierOf(x.a) = TierOf(y.a)
       /\ \/ StrLess(x.m, y.m)
          \/ x.m = y.m /\ (StrLess(x.f, y.f) \/ x.f = y.f)

\* C8: the table has exactly one row per entry of the asset-type map, with
\* tier Pass iff the class is known and allow-listed, Fail iff known and not
\* allow-listed, Unknown iff extraction failed, the text of the entry, and
\* the rows ascend by tier (Pass < Fail < Unknown), then text, then path.
C8_VerificationTable ==
    (pc = "done" /\ asset_types # EmptyMap) =>
        /\ Cardinality(Sections("auto-verify class asset path")) = 1
        /\ Len(Table) = Cardinality(DOMAIN asset_types)
        /\ \A f \in DOMAIN asset_types : \E i \in 1..Len(Table) :
              /\ Table[i].f = f
              /\ Table[i].m = asset_types[f].v
              /\ Table[i].a = "yes" <=> (asset_types[f].ok /\ asset_types[f].v \in auto_verified)
              /\ Table[i].a = "no" <=> (asset_types[f].ok /\ asset_types[f].v \notin auto_verified)
              /\ Table[i].a = "?" <=> ~asset_types[f].ok
        /\ \A i, j \in 1..Len(Table) : i < j => RowOrdered(Table[i], Table[j])

\* A table with a row of each tier, whose map order is not the row order.
C8_Witness ==
    /\ pc = "done"
    /\ Cardinality(DOMAIN asset_types) = 3
    /\ [i \in 1..3 |-> Table[i].a] = <<"yes", "no", "?">>
    /\ StrLess(Table[3].f, Table[1].f)

----------------------------------------------------------------------------
(* Paths of the container: a path is its directory components and the      *)
(* dot-separated parts of its file name                                    *)

File(dir, name) == [dir |-> dir, name |-> name]

file_name(p) == JoinStr(p.name, ".")
to_string(p) == JoinStr(p.dir \o <<file_name(p)>>, "/")
components(p) == p.dir \o <<file_name(p)>>

\* Utf8UnixPath::extension: what follows the last dot of the file name.
extension(p) == IF Len(p.name) >= 2 THEN Some(Last(p.name)) ELSE None

\* Utf8UnixPath::with_extension: the extension the name has is replaced.
with_extension(p, e) ==
    File(p.dir, (IF Len(p.name) >= 2 THEN Pop(p.name) ELSE p.name)
                \o (IF e = "" THEN <<>> ELSE <<e>>))

\* Utf8UnixPath::join of the sanitized mount point and a relative path.
join(base, p) == File(base \o p.dir, p.name)

\* The mutant: two levels up are enough.
strip_prefix_two(path, base) ==
    IF Len(path) >= 2 /\ SubSeq(path, 1, 2) = SubSeq(base, 1, 2)
    THEN Ok(SubSeq(path, 3, Len(path)))
    ELSE Err("StripPrefixError")

\* Utf8UnixPath::strip_prefix: base is a prefix component by component.
strip_prefix(path, base) ==
    IF Len(path) >= Len(base) /\ SubSeq(path, 1, Len(base)) = base
    THEN Ok(SubSeq(path, Len(base) + 1, Len(path)))
    ELSE Err("StripPrefixError")

ThreeUp == <<"..", "..", "..">>

----------------------------------------------------------------------------
(* Asset metadata: get_root_export, get_type, get_full_path,               *)
(* get_parent_path, mod_lint.rs 248-304.  An asset is its export and       *)
(* import tables; a PackageIndex is an integer: negative for import -i,    *)
(* positive for an export, 0 for none.                                     *)

Export(outer, name, class, super) ==
    [outer_index |-> outer, object_name |-> name, class_index |-> class,
     super_index |-> super]
Import(name, outer) == [object_name |-> name, outer_index |-> outer]

is_import(i) == i < 0
get_import(asset, i) ==
    IF is_import(i) /\ -i <= Len(asset.imports) THEN Some(asset.imports[-i]) ELSE None

get_root_export(asset) ==
    LET rootless == {i \in 1..Len(asset.exports) : asset.exports[i].outer_index = 0}
    IN IF rootless = {} THEN Err("no root export")
       ELSE Ok(CHOOSE i \in rootless : \A j \in rootless : i <= j)

get_type(asset) ==
    LET root == get_root_export(asset)
    IN IF ~root.ok THEN root
       ELSE LET class == get_import(asset, asset.exports[root.v].class_index)
            IN IF IsSome(class) THEN Ok(Unwrap(class).object_name)
               ELSE Err("missing class import")

get_full_path(path, asset) ==
    LET root == get_root_export(asset)
    IN IF ~root.ok THEN root
       ELSE Ok(path \o "." \o asset.exports[root.v].object_name)

\* The loop of lines 294-302.
RECURSIVE OuterChain(_, _, _)
OuterChain(asset, import_index, comps) ==
    IF ~is_import(import_index) THEN Ok(Some(JoinStr(comps, ".")))
    ELSE LET import == get_import(asset, import_index)
         IN IF import = None THEN Err("missing import")
            ELSE OuterChain(asset, Unwrap(import).outer_index,
                            <<Unwrap(import).object_name>> \o comps)

get_parent_path(asset) ==
    LET root == get_root_export(asset)
    IN IF ~root.ok THEN root
       ELSE IF asset.exports[root.v].super_index = 0 THEN Ok(None)
       ELSE OuterChain(asset, asset.exports[root.v].super_index, <<>>)

----------------------------------------------------------------------------
(* mod_lint main, mod_lint.rs 15-177 *)

valid_extensions == {"uasset", "uexp", "umap", "ubulk", "ufont", "ini", "locres"}

Sanitized == strip_prefix(mount_point, ThreeUp)

\* Lines 31-46.
ExtraneousOf(files) ==
    {f \in files : extension(f) = None \/ Unwrap(extension(f)) \notin valid_extensions}
ExtensionsOf(files) ==
    LET withExt == {f \in files : IsSome(extension(f))}
    IN [stem \in {with_extension(f, "") : f \in withExt} |->
           {Unwrap(extension(f)) : f \in {g \in withExt : with_extension(g, "") = stem}}]

\* The keys of a BTreeMap<String, _> whose keys are paths: in String order.
RECURSIVE StemIter(_)
StemIter(S) ==
    IF S = {} THEN <<>>
    ELSE LET m == CHOOSE x \in S :
                     \A y \in S : y = x \/ StrLess(to_string(x), to_string(y))
         IN <<m>> \o StemIter(S \ {m})

AssetRegistry == File(<<"FSD">>, <<"AssetRegistry", "bin">>)

\* No argument: the usage text.  main, lines 22 and 173-175.
Usage ==
    /\ pc = "start"
    /\ out' = Append(out, [section |-> "Usage", lines |-> <<>>])
    /\ pc' = "usage"
    /\ UNCHANGED <<err, pathVars, lintVars, asset_types, hierarchy, treeVars, auditVars>>

\* get_pak or PakBuilder::reader fails.  main, lines 23-24.
OpenFails ==
    /\ pc = "start"
    /\ pc' = "failed"
    /\ err' = "cannot read container"
    /\ UNCHANGED <<out, pathVars, lintVars, asset_types, hierarchy, treeVars, auditVars>>

\* main, lines 25-26 and 167-172.
CheckMount ==
    /\ pc = "start"
    /\ IF Sanitized.ok
       THEN pc' = "scan" /\ err' = err
       ELSE pc' = "failed" /\ err' = "Invalid mount point"
    /\ UNCHANGED <<out, pathVars, lintVars, asset_types, hierarchy, treeVars, auditVars>>

\* main, lines 27-57.
ScanFiles ==
    /\ pc = "scan"
    /\ extensions' = ExtensionsOf(pak_files)
    /\ todo' = StemIter(DOMAIN extensions')
    /\ LET extraneous_files ==
               {join(Sanitized.v, f) : f \in ExtraneousOf(pak_files)} \ {AssetRegistry}
       IN out' = IF extraneous_files = {} THEN out
                 ELSE Append(out, [section |-> "extraneous files:",
                                   lines |-> {to_string(f) : f \in extraneous_files}])
    /\ pc' = IF todo' = <<>> THEN "build" ELSE "stems"
    /\ UNCHANGED <<err, pathVars, mount_point, pak_files, assets_read, split_pairs,
                   asset_types, hierarchy, treeVars, auditVars>>

\* What the container holds for a complete pair.
ImportTable ==
    <<Import("SoundWave", 0), Import("BlueprintGeneratedClass", 0),
      Import("A_C", -4), Import("/Game/A", 0),
      Import("Actor", -6), Import("/Script/Engine", 0)>>
Asset(exports) == [readable |-> TRUE, parses |-> TRUE, exports |-> exports,
                   imports |-> ImportTable]
AssetUniverse ==
    { Asset(<<Export(0, "A", -1, 0)>>),                \* a sound, no superclass
      Asset(<<Export(0, "A_C", -2, -5)>>),             \* superclass /Script/Engine.Actor
      Asset(<<Export(0, "B_C", -2, -3)>>),             \* superclass /Game/A.A_C
      Asset(<<Export(0, "A_C", -2, 2), Export(1, "B_C", -2, 0)>>),  \* superclass an export
      Asset(<<Export(0, "A", 0, 0)>>),                 \* no class import
      Asset(<<Export(0, "A_C", -2, -9)>>),             \* superclass import missing
      Asset(<<Export(1, "A", -1, 0)>>),                \* no root export
      [readable |-> TRUE, parses |-> FALSE, exports |-> <<>>, imports |-> <<>>],
      [readable |-> FALSE, parses |-> FALSE, exports |-> <<>>, imports |-> <<>>] }

\* One iteration of the loop of lines 61-102 for a complete pair: the error
\* that ends main, or the maps after the iteration.
Extract(f, asset, types, edges) ==
    LET path == pak_path_to_game_path(components(join(Sanitized.v, f)))
        parent == get_parent_path(asset)
        full_path == get_full_path(Unwrap(path), asset)
        edges2 == IF IsSome(parent.v)
                  THEN [p \in DOMAIN edges \cup {Unwrap(parent.v)} |->
                           (IF p \in DOMAIN edges THEN edges[p] ELSE {})
                           \cup (IF p = Unwrap(parent.v) THEN {full_path.v} ELSE {})]
                  ELSE edges
        types2 == [k \in DOMAIN types \cup {full_path.v} |->
                      IF k = full_path.v THEN get_type(asset) ELSE types[k]]
    IN IF ~asset.readable THEN Err("cannot read entry")
       ELSE IF path = None THEN Err("failed to normalize")
       ELSE IF ~asset.parses THEN Err("failed to parse asset")
       ELSE IF ~parent.ok THEN parent
       ELSE Ok([hierarchy |-> edges2, asset_types |-> types2])

OneSided(ext) == (("umap" \in ext) \/ ("uasset" \in ext)) # ("uexp" \in ext)
Complete(ext) == (("umap" \in ext) \/ ("uasset" \in ext)) /\ ("uexp" \in ext)

\* main, lines 61-102: one iteration.
ProcessStem ==
    /\ pc = "stems"
    /\ LET f == Head(todo)
           ext == extensions[f]
       IN IF OneSided(ext)
          THEN /\ split_pairs' = split_pairs
                      \cup {with_extension(join(Sanitized.v, f), e) : e \in ext}
               /\ pc' = IF Tail(todo) = <<>> THEN "build" ELSE "stems"
               /\ UNCHANGED <<err, assets_read, asset_types, hierarchy>>
          ELSE IF Complete(ext)
          THEN \E asset \in AssetUniverse :
                  LET r == Extract(f, asset, asset_types, hierarchy)
                  IN /\ assets_read' = [s \in DOMAIN assets_read \cup {f} |->
                                           IF s = f THEN asset ELSE assets_read[s]]
                     /\ IF r.ok
                        THEN /\ hierarchy' = r.v.hierarchy
                             /\ asset_types' = r.v.asset_types
                             /\ pc' = IF Tail(todo) = <<>> THEN "build" ELSE "stems"
                             /\ err' = err
                        ELSE /\ pc' = "failed"
                             /\ err' = r.v
                             /\ UNCHANGED <<asset_types, hierarchy>>
                     /\ UNCHANGED split_pairs
          ELSE /\ pc' = IF Tail(todo) = <<>> THEN "build" ELSE "stems"
               /\ UNCHANGED <<err, assets_read, split_pairs, asset_types, hierarchy>>
    /\ todo' = Tail(todo)
    /\ UNCHANGED <<out, pathVars, mount_point, pak_files, extensions, treeVars, auditVars>>

\* main, lines 110-115.
PrintSplitPairs ==
    /\ pc = "printed"
    /\ out' = IF split_pairs = {} THEN out
              ELSE Append(out, [section |-> "split asset pairs:",
                                lines |-> {to_string(f) : f \in split_pairs}])
    /\ pc' = "table"
    /\ UNCHANGED <<err, pathVars, lintVars, asset_types, hierarchy, treeVars, auditVars>>

MaxFiles == 4
MountPoints ==
    {<<"..", "..", "..">>, <<"..", "..", "..", "FSD">>, <<"..", "..", "FSD">>, <<"FSD">>}
Stems == {File(<<"Content">>, <<"A">>), File(<<"Content">>, <<"A", "v2">>),
          File(<<>>, <<"B">>)}
FileUniverse ==
    {File(st.dir, st.name \o <<e>>) :
        st \in Stems, e \in {"uasset", "umap", "uexp", "ubulk", "txt"}}
    \cup {File(<<>>, <<"B">>), File(<<>>, <<"AssetRegistry", "bin">>)}

InitLint ==
    /\ pc = "start"
    /\ mount_point \in MountPoints
    /\ pak_files \in SetsUpTo(FileUniverse, MaxFiles)
    /\ extensions = EmptyMap /\ todo = <<>> /\ assets_read = EmptyMap /\ split_pairs = {}
    /\ asset_types = EmptyMap /\ hierarchy = EmptyMap
    /\ err = "" /\ out = <<>>
    /\ IdlePath /\ IdleTree /\ IdleAudit

NextLint ==
    \/ Usage
    \/ OpenFails
    \/ CheckMount
    \/ ScanFiles
    \/ ProcessStem
    \/ BuildTrees
    \/ PrintTrees
    \/ PrintSplitPairs
    \/ PrintTable

SpecLint == InitLint /\ [][NextLint]_vars

----------------------------------------------------------------------------
(* C1, C2, C3, C5: the run of mod_lint *)

ExtractionErrors == {"failed to parse asset", "no root export", "missing import"}
ExtractionFails(asset) ==
    ~asset.parses \/ ~get_parent_path(asset).ok \/ ~get_type(asset).ok

\* C1: a failure of the extraction for one stem (parsing, root export,
\* parent resolution, class lookup) never ends the run, and once the run is
\* done every asset whose extraction failed has a row of tier Unknown.
C1_ExtractionIsolated ==
    /\ err \notin ExtractionErrors
    /\ pc = "done" =>
          \A f \in DOMAIN assets_read : ExtractionFails(assets_read[f]) =>
              \E i \in 1..Len(Table) : Table[i].a = "?"

\* C2: a failure of pak_path_to_game_path for a complete pair never ends
\* the run.
C2_NormalizationIsolated == err # "failed to normalize"

BeginsThreeUp(m) == Len(m) >= 3 /\ m[1] = ".." /\ m[2] = ".." /\ m[3] = ".."
ReportSections ==
    {"extraneous files:", "class hierarchy:", "split asset pairs:",
     "auto-verify class asset path"}

\* C3: with a mount point that does not begin with ../../../ the run of
\* mod_lint on the container can only end failed, and no report section is
\* ever printed, whatever the files.
C3_InvalidMountFails ==
    ~BeginsThreeUp(mount_point) =>
        /\ pc \in {"start", "usage", "failed"}
        /\ \A i \in 1..Len(out) : out[i].section \notin ReportSections

C3_Witness ==
    /\ ~BeginsThreeUp(mount_point)
    /\ Cardinality(pak_files) >= 2
    /\ pc = "failed" /\ err = "Invalid mount point"

SplitReport ==
    IF Sections("split asset pairs:") = {} THEN {}
    ELSE out[CHOOSE i \in Sections("split asset pairs:") : TRUE].lines

\* C5: in a run that completes, the file stem.e of every stem and every
\* extension e recorded under it is listed as a split pair exactly when the
\* stem has one side of the pair (uasset or umap) and (uexp) without the
\* other.
C5_SplitPairsPerStem ==
    pc = "done" =>
        \A f \in DOMAIN extensions : \A e \in extensions[f] :
            to_string(join(Sanitized.v, File(f.dir, f.name \o <<e>>))) \in SplitReport
                <=> OneSided(extensions[f])

----------------------------------------------------------------------------
(* modio_audit main, modio_audit.rs 39-94, and find_mod_assets, 96-112 *)

\* find_mod_assets: every listed file, joined to the mount point, stripped
\* of ../../../ and of its extension; one failure fails the listing.
find_mod_assets(pak) ==
    LET fs == CHOOSE q \in Perms(pak.files) : TRUE
        stripped(f) == strip_prefix(pak.mount_point \o f.dir, ThreeUp)
    IN IF \E f \in pak.files : ~stripped(f).ok THEN Err("StripPrefixError")
       ELSE Ok([i \in 1..Len(fs) |->
                   to_string(with_extension(File(stripped(fs[i]).v, fs[i].name), ""))])

\* Lines 70-72.
RECURSIVE PushAll(_, _, _)
PushAll(owners, files, mod_id) ==
    IF files = <<>> THEN owners
    ELSE LET file == Head(files)
             pushed == [p \in DOMAIN owners \cup {file} |->
                           Append(IF p \in DOMAIN owners THEN owners[p] ELSE <<>>, mod_id)]
         IN PushAll([p \in DOMAIN pushed |->
                        IF p = file THEN pushed[p] ELSE owners[p]], Tail(files), mod_id)

\* sort_by_key(|a| a.1.len()): stable, ascending in the length of the Vec.
RECURSIVE SortByLen(_)
SortByLen(entries) ==
    IF entries = <<>> THEN <<>>
    ELSE LET rest == SortByLen(Tail(entries))
             x == Head(entries)
             k == Cardinality({i \in 1..Len(rest) : Len(rest[i][2]) < Len(x[2])})
         IN SubSeq(rest, 1, k) \o <<x>> \o SubSeq(rest, k + 1, Len(rest))

Range(s) == {s[i] : i \in 1..Len(s)}

\* The mutant: the Vec is printed as it is.
OwnersPrintedAsPushed(owners) == {owners}

\* collect::<HashSet<_>>() and its iteration: each id once, in any order.
OwnersPrinted(owners) == Perms(Range(owners))

MaxMods == 2

\* state.json names every mod of the mods directory (lines 57-62).
mod_name_map == [m \in 1..MaxMods |-> "mod " \o ToString(m)]

AuditFiles ==
    {File(<<"Content">>, <<"X", "uasset">>), File(<<"Content">>, <<"X", "uexp">>),
     File(<<"Content">>, <<"X", "ubulk">>), File(<<"Content">>, <<"Y", "uasset">>)}
Containers ==
    {[pak |-> TRUE, mount_point |-> m, files |-> fs] :
        m \in {<<"..", "..", "..", "FSD">>, <<"FSD">>}, fs \in SUBSET AuditFiles}
    \cup {[pak |-> FALSE, mount_point |-> <<>>, files |-> {}]}

InitAudit ==
    /\ pc = "read_dir"
    /\ mods_left = 1..MaxMods
    /\ paks = EmptyMap /\ asset_owners = EmptyMap /\ sorted = <<>>
    /\ err = "" /\ out = <<>>
    /\ asset_types = EmptyMap /\ hierarchy = EmptyMap
    /\ IdlePath /\ IdleLint /\ IdleTree

\* main, lines 64-79: one entry of the mods directory, in the order read_dir
\* yields them.
ReadMod ==
    /\ pc = "read_dir"
    /\ \E mod_id \in mods_left : \E pak \in Containers :
          LET files == find_mod_assets(pak)
          IN /\ mods_left' = mods_left \ {mod_id}
             /\ paks' = [m \in DOMAIN paks \cup {mod_id} |->
                            IF m = mod_id THEN pak ELSE paks[m]]
             /\ asset_owners' = IF pak.pak /\ files.ok
                                THEN PushAll(asset_owners, files.v, mod_id)
                                ELSE asset_owners
             /\ out' = IF ~pak.pak
                       THEN Append(out, [section |-> "could not find .pak in",
                                         lines |-> mod_id])
                       ELSE IF ~files.ok
                       THEN Append(out, [section |-> "error reading", lines |-> mod_id])
                       ELSE out
             /\ pc' = IF mods_left' = {} THEN "sort" ELSE "read_dir"
    /\ UNCHANGED <<err, pathVars, lintVars, asset_types, hierarchy, treeVars, sorted>>

\* main, lines 80-81: the entries of the HashMap, in any order, then sorted.
SortOwners ==
    /\ pc = "sort"
    /\ \E order \in Perms(DOMAIN asset_owners) :
          sorted' = SortByLen([i \in 1..Len(order) |-> <<order[i], asset_owners[order[i]]>>])
    /\ pc' = IF sorted' = <<>> THEN "audited" ELSE "report"
    /\ UNCHANGED <<err, out, pathVars, lintVars, asset_types, hierarchy, treeVars,
                   mods_left, paks, asset_owners>>

\* main, lines 82-92: one asset.
PrintOwners ==
    /\ pc = "report"
    /\ \E printed \in OwnersPrinted(Head(sorted)[2]) :
          out' = Append(out, [section |-> "modified by:",
                              lines |-> [path |-> Head(sorted)[1],
                                         owners |-> [i \in 1..Len(printed) |->
                                            <<printed[i], mod_name_map[printed[i]]>>]]])
    /\ sorted' = Tail(sorted)
    /\ pc' = IF sorted' = <<>> THEN "audited" ELSE "report"
    /\ UNCHANGED <<err, pathVars, lintVars, asset_types, hierarchy, treeVars,
                   mods_left, paks, asset_owners>>

NextAudit == ReadMod \/ SortOwners \/ PrintOwners

SpecAudit == InitAudit /\ [][NextAudit]_vars

----------------------------------------------------------------------------
(* C9, C10: the ownership report *)

Entries == {i \in 1..Len(out) : out[i].section = "modified by:"}
Listed(pak) ==
    IF pak.pak /\ find_mod_assets(pak).ok THEN Range(find_mod_assets(pak).v) ELSE {}
Containing(path) == {m \in DOMAIN paks : path \in Listed(paks[m])}
PrintedIds(i) == [k \in 1..Len(out[i].lines.owners) |-> out[i].lines.owners[k][1]]

\* C9: once the report is printed, a path that two or more containers
\* contain has exactly one entry, and the owners printed in it are the
\* containers that contain the path, each once.
C9_OneEntryEachOwnerOnce ==
    pc = "audited" =>
        \A m \in DOMAIN paks : \A path \in Listed(paks[m]) :
            Cardinality(Containing(path)) >= 2 =>
                /\ Cardinality({i \in Entries : out[i].lines.path = path}) = 1
                /\ \A i \in Entries : out[i].lines.path = path =>
                      /\ Range(PrintedIds(i)) = Containing(path)
                      /\ Len(PrintedIds(i)) = Cardinality(Containing(path))

\* Both containers list the same path under several extensions.
C9_Witness ==
    /\ pc = "audited"
    /\ \E i \in Entries :
          /\ Len(PrintedIds(i)) = 2
          /\ Cardinality(Containing(out[i].lines.path)) = 2
          /\ \A m \in DOMAIN paks :
                Cardinality({f \in paks[m].files : f.name[1] = "X"}) >= 2

\* C10: the entries of the report ascend in the number of owners printed.
C10_AscendingOwnerCount ==
    pc = "audited" =>
        \A i, j \in Entries : i < j => Len(PrintedIds(i)) <= Len(PrintedIds(j))

----------------------------------------------------------------------------
(* C11, C12: the hierarchy a run of mod_lint builds from its complete       *)
(* pairs.  The containers hold complete pairs only, under one or two        *)
(* project directories: FSD/Content/A and Foo/Content/A both normalize to   *)
(* /Game/A (pak_path_to_game_path, line 235: any first component).          *)

MaxPairs == 3
PairStems ==
    {File(<<"FSD", "Content">>, <<"A">>), File(<<"Foo", "Content">>, <<"A">>),
     File(<<"Content">>, <<"A">>), File(<<"Content">>, <<"B">>)}
PairFiles(S) == {File(st.dir, st.name \o <<e>>) : st \in S, e \in {"uasset", "uexp"}}

InitPairs ==
    /\ pc = "start"
    /\ mount_point \in MountPoints
    /\ pak_files \in {PairFiles(S) : S \in SetsUpTo(PairStems, MaxPairs)}
    /\ extensions = EmptyMap /\ todo = <<>> /\ assets_read = EmptyMap /\ split_pairs = {}
    /\ asset_types = EmptyMap /\ hierarchy = EmptyMap
    /\ err = "" /\ out = <<>>
    /\ IdlePath /\ IdleTree /\ IdleAudit

SpecPairs == InitPairs /\ [][NextLint]_vars

\* The full paths of the assets of the run: one record per complete pair
\* that was read (line 97).
AssetPaths == DOMAIN asset_types
LoopDone == pc \in {"build", "print", "printed", "table", "done"}

\* C11: once the loop over the stems is over, every key of the hierarchy
\* map, and every root of the forest built from it, is the full path of an
\* asset of the run: a superclass outside the run's assets adds no edge.
C11_EdgesWithinRun ==
    LoopDone => /\ Keys(hierarchy) \subseteq AssetPaths
                /\ Range(roots) \subseteq AssetPaths

\* How many nodes of the tree below (and with) node carry the path p.
RECURSIVE Occurrences(_, _)
Occurrences(node, p) ==
    LET F[k \in 0..Len(node.children)] ==
            IF k = 0 THEN 0 ELSE F[k - 1] + Occurrences(node.children[k], p)
    IN (IF node.id = p THEN 1 ELSE 0) + F[Len(node.children)]
InForest(p) ==
    LET F[k \in 0..Len(trees)] ==
            IF k = 0 THEN 0 ELSE F[k - 1] + Occurrences(trees[k], p)
    IN F[Len(trees)]

Acyclic(h) == \A k \in Keys(h) : ~Cyclic(h, k, {})
NeverChild(h) == {p \in DOMAIN h : \A k \in DOMAIN h : p \notin h[k]}

\* C12: when the hierarchy map of a run has no cycle, the roots of the
\* forest built from it are the parents that are nobody's child, each once,
\* and every path of the map, parent or child, is a node of the forest
\* exactly once.
C12_EachPathOnceInForest ==
    (pc \in {"print", "printed", "table", "done"} /\ Acyclic(hierarchy)) =>
        /\ Range(roots) = NeverChild(hierarchy)
        /\ Len(roots) = Cardinality(NeverChild(hierarchy))
        /\ \A p \in Keys(hierarchy) \cup Values(hierarchy) : InForest(p) = 1

====
